---- MODULE Spec2Model ----
(***************************************************************************)
(* PhilPSX: the per-fragment VRAM store of the shaded-polygon fragment     *)
(* shader and of the second GP0_80 (VRAM copy) fragment shader, the pure   *)
(* colour pipeline they use (dither, 15-bit restore, semi-transparency),   *)
(* and the DMA arbiter behind the API of DMAArbiter.h.                     *)
(***************************************************************************)
EXTENDS Integers, Sequences, FiniteSets, TLC

VARIABLES
    vram,                     \* vramImage: coord -> pixel (r, g, b, a)
    tempDrawImage,            \* tempDrawImage of GP0_80: coord -> pixel
    dither,                   \* uniform, location 5
    semiTransparencyEnabled,  \* uniform, location 6
    semiTransparencyMode,     \* uniform, location 7
    setMask,                  \* uniform, location 8 (GP0_80: location 2)
    checkMask,                \* uniform, location 9 (GP0_80: location 3)
    drawTopLeftX,             \* uniform, location 10
    drawTopLeftY,             \* uniform, location 11
    drawBottomRightX,         \* uniform, location 12
    drawBottomRightY,         \* uniform, location 13
    frag,                     \* history: the last fragment a shader processed
    fragCount,                \* history: fragments processed so far
    fcase,                    \* colour pipeline harness: the inputs drawn
    fres,                     \* colour pipeline harness: the outputs computed
    dmaChan,                  \* DMA channel bank: channel -> registers and state
    dicr,                     \* DMA interrupt register: IRQ enables and flags
    dpcr,                     \* DMA control register: priority per channel
    mem,                      \* system memory behind the bus port: address -> word
    ctlWrites                 \* history: control-register writes so far

gpuVars == <<vram, tempDrawImage, dither, semiTransparencyEnabled,
             semiTransparencyMode, setMask, checkMask, drawTopLeftX,
             drawTopLeftY, drawBottomRightX, drawBottomRightY, frag, fragCount>>
fnVars == <<fcase, fres>>
dmaVars == <<dmaChan, dicr, dpcr, mem, ctlWrites>>
vars == <<gpuVars, fnVars, dmaVars>>

----------------------------------------------------------------------------
(* Bounds of the model *)

\* fragments processed in one behaviour
MaxFragments == 2
\* the colour pipeline is applied at fragment coordinates 0..DitherSpan
DitherSpan == 3
\* control-register writes by the CPU in one behaviour
MaxControlWrites == 1

(* Program constants *)

\* largest 8-bit channel value (0xFF)
MaxColour8 == 255
\* largest 5-bit channel value (0x1F)
MaxColour5 == 31

RGB == {"r", "g", "b"}

----------------------------------------------------------------------------
(* The colour pipeline of ShadedPolygon_FragmentShader1 main() *)

ditherArray ==
    << <<-4, 2, -3, 3>>,
       <<0, -2, 1, -1>>,
       <<-3, 3, -4, 2>>,
       <<1, -1, 0, -2>> >>

ditherColumn(tempDrawCoord) == tempDrawCoord.x % 4

ditherRow_noFlip(tempDrawCoord) == tempDrawCoord.y % 4

ditherRow(tempDrawCoord) == (511 - tempDrawCoord.y) % 4

\* ditherArray[ditherColumn][ditherRow]; TLA+ sequences start at 1
ditherOffset(tempDrawCoord) ==
    ditherArray[ditherColumn(tempDrawCoord) + 1][ditherRow(tempDrawCoord) + 1]

\* if (v < 0) v = 0; else if (v > 0xFF) v = 0xFF;
ClampDither(v) == IF v < 0 THEN 0 ELSE IF v > MaxColour8 THEN MaxColour8 ELSE v

\* the body of if (dither == 1): the same offset on every channel, clamped
ditherPixel(texPixel, tempDrawCoord) ==
    [c \in RGB |-> ClampDither(texPixel[c] + ditherOffset(tempDrawCoord))]

\* "Deal with colouring and dithering": texPixel before the 15-bit restore
Colouring(interpolated_colour, tempDrawCoord, ditherOn) ==
    IF ditherOn = 1
    THEN ditherPixel(interpolated_colour, tempDrawCoord)
    ELSE interpolated_colour

Quantize_shift2(v) == IF v \div 4 > MaxColour5 THEN MaxColour5 ELSE v \div 4

\* texPixel.c = texPixel.c >> 3; if (texPixel.c > 0x1F) texPixel.c = 0x1F;
Quantize(v) == IF v \div 8 > MaxColour5 THEN MaxColour5 ELSE v \div 8

\* "Restore colours to original 15-bit format"
Restore15(texPixel) == [c \in RGB |-> Quantize(texPixel[c])]

Blend_average(mode, old, new) ==
    CASE mode = 0 -> (old + new) \div 2
      [] mode = 1 -> old + new
      [] mode = 2 -> old - new
      [] mode = 3 -> old + new \div 4
      [] OTHER -> new

\* switch (semiTransparencyMode): one channel, old = vram, new = texPixel
Blend(mode, old, new) ==
    CASE mode = 0 -> old \div 2 + new \div 2
      [] mode = 1 -> old + new
      [] mode = 2 -> old - new
      [] mode = 3 -> old + new \div 4
      [] OTHER -> new

Saturate_upperOnly(v) == IF v > MaxColour5 THEN MaxColour5 ELSE v

Saturate_lowerOnly(v) == IF v < 0 THEN 0 ELSE v

\* "Saturate pixel"
Saturate(v) == IF v < 0 THEN 0 ELSE IF v > MaxColour5 THEN MaxColour5 ELSE v

\* "Handle semi-transparency here if enabled"
SemiTransparency(enabled, mode, vramPixel, texPixel) ==
    IF enabled = 1
    THEN [c \in RGB |-> Saturate(Blend(mode, vramPixel[c], texPixel[c]))]
    ELSE texPixel

\* "Set mask bit if enabled": texPixel.a starts as 0
MaskBit(a, setMaskOn) == IF setMaskOn = 1 THEN 1 ELSE a

\* texPixel as main() has it when it reaches the store
TexPixel(colour, tempDrawCoord, ditherOn, enabled, mode, setMaskOn, vramPixel) ==
    LET c15 == Restore15(Colouring(colour, tempDrawCoord, ditherOn))
        st == SemiTransparency(enabled, mode, vramPixel, c15)
    IN [r |-> st.r, g |-> st.g, b |-> st.b, a |-> MaskBit(0, setMaskOn)]

----------------------------------------------------------------------------
(* The stores of the two fragment shaders *)

inDrawingArea_exclusive(pixelCoord) ==
    /\ pixelCoord.x > drawTopLeftX
    /\ pixelCoord.x < drawBottomRightX
    /\ pixelCoord.y < drawTopLeftY
    /\ pixelCoord.y > drawBottomRightY

\* "Tells us if a pixel is in the drawing area"
inDrawingArea(pixelCoord) ==
    /\ pixelCoord.x >= drawTopLeftX
    /\ pixelCoord.x <= drawBottomRightX
    /\ pixelCoord.y <= drawTopLeftY
    /\ pixelCoord.y >= drawBottomRightY

ShadedPolygon_store_noMaskCheck(checkMaskOn, vramPixel, inArea) == inArea

\* "Check vram pixel if enabled, else just merge, also checking new pixel
\* is in draw area": TRUE when imageStore is executed
ShadedPolygon_store(checkMaskOn, vramPixel, inArea) ==
    IF checkMaskOn = 1
    THEN vramPixel.a # 1 /\ inArea
    ELSE inArea

GP0_80_store_noMaskCheck(checkMaskOn, vramPixel) == TRUE

\* "Check vram pixel if enabled, else just merge": no drawing-area test
GP0_80_store(checkMaskOn, vramPixel) ==
    IF checkMaskOn = 1
    THEN vramPixel.a # 1
    ELSE TRUE

\* the VRAM coordinates the model keeps
Coords == {[x |-> 5, y |-> 75], [x |-> 15, y |-> 75]}

\* interpolated_colour values of the fragments
Colours == {[r |-> 255, g |-> 0, b |-> 130], [r |-> 8, g |-> 200, b |-> 77]}

\* xOffset, yOffset of the copies
Offsets == {[x |-> 0, y |-> 0], [x |-> 10, y |-> 0], [x |-> -10, y |-> 0]}

\* drawing areas: <<drawTopLeftX, drawBottomRightX, drawTopLeftY, drawBottomRightY>>
DrawAreas ==
    { <<10, 20, 100, 50>>,
      <<15, 15, 75, 75>>,
      <<0, 14, 100, 50>>,
      <<0, 20, 74, 50>>,
      <<0, 20, 100, 76>> }

\* VRAM contents before the first fragment
InitPixels ==
    { [r |-> 0, g |-> 0, b |-> 0, a |-> 0],
      [r |-> 31, g |-> 16, b |-> 1, a |-> 1] }

NoFrag ==
    [shader |-> "none", coord |-> [x |-> 0, y |-> 0],
     src |-> [r |-> 0, g |-> 0, b |-> 0, a |-> 0],
     old |-> [r |-> 0, g |-> 0, b |-> 0, a |-> 0],
     tex |-> [r |-> 0, g |-> 0, b |-> 0, a |-> 0]]

GPUInit ==
    /\ vram \in [Coords -> InitPixels]
    /\ tempDrawImage = vram
    /\ dither \in 0..1
    /\ semiTransparencyEnabled \in 0..1
    /\ semiTransparencyMode \in 0..3
    /\ setMask \in 0..1
    /\ checkMask \in 0..1
    /\ \E area \in DrawAreas :
          /\ drawTopLeftX = area[1]
          /\ drawBottomRightX = area[2]
          /\ drawTopLeftY = area[3]
          /\ drawBottomRightY = area[4]
    /\ frag = NoFrag
    /\ fragCount = 0

GPUIdle ==
    /\ vram = [c \in Coords |-> [r |-> 0, g |-> 0, b |-> 0, a |-> 0]]
    /\ tempDrawImage = vram
    /\ dither = 0
    /\ semiTransparencyEnabled = 0
    /\ semiTransparencyMode = 0
    /\ setMask = 0
    /\ checkMask = 0
    /\ drawTopLeftX = 0
    /\ drawBottomRightX = 0
    /\ drawTopLeftY = 0
    /\ drawBottomRightY = 0
    /\ frag = NoFrag
    /\ fragCount = 0

uniformVars == <<tempDrawImage, dither, semiTransparencyEnabled,
                 semiTransparencyMode, setMask, checkMask, drawTopLeftX,
                 drawTopLeftY, drawBottomRightX, drawBottomRightY>>

\* ShadedPolygon_FragmentShader1 main(), for the fragment at tempDrawCoord
ShadedPolygon_main(tempDrawCoord, interpolated_colour) ==
    /\ fragCount < MaxFragments
    /\ LET vramPixel == vram[tempDrawCoord]
           texPixel == TexPixel(interpolated_colour, tempDrawCoord, dither,
                                semiTransparencyEnabled, semiTransparencyMode,
                                setMask, vramPixel)
           inArea == inDrawingArea(tempDrawCoord)
       IN /\ vram' = IF ShadedPolygon_store(checkMask, vramPixel, inArea)
                     THEN [vram EXCEPT ![tempDrawCoord] = texPixel]
                     ELSE vram
          /\ frag' = [shader |-> "ShadedPolygon", coord |-> tempDrawCoord,
                      src |-> [r |-> interpolated_colour.r,
                               g |-> interpolated_colour.g,
                               b |-> interpolated_colour.b, a |-> 0],
                      old |-> vramPixel, tex |-> texPixel]
    /\ fragCount' = fragCount + 1
    /\ UNCHANGED <<uniformVars, fnVars, dmaVars>>

\* GP0_80_FragmentShader2 main(), for the fragment at vramCoord
GP0_80_main(vramCoord, xOffset, yOffset) ==
    /\ fragCount < MaxFragments
    /\ LET tempDrawCoord == [x |-> vramCoord.x - xOffset,
                             y |-> vramCoord.y - yOffset]
       IN /\ tempDrawCoord \in DOMAIN tempDrawImage
          /\ LET loaded == tempDrawImage[tempDrawCoord]
                 vramPixel == vram[vramCoord]
                 tempDrawPixel == [loaded EXCEPT !.a = MaskBit(loaded.a, setMask)]
             IN /\ vram' = IF GP0_80_store(checkMask, vramPixel)
                           THEN [vram EXCEPT ![vramCoord] = tempDrawPixel]
                           ELSE vram
                /\ frag' = [shader |-> "GP0_80", coord |-> vramCoord,
                            src |-> loaded, old |-> vramPixel,
                            tex |-> tempDrawPixel]
    /\ fragCount' = fragCount + 1
    /\ UNCHANGED <<uniformVars, fnVars, dmaVars>>

\* The first pass of GP0_80 fills tempDrawImage with the VRAM pixels to copy
GP0_80_fillTempDraw ==
    /\ fragCount < MaxFragments
    /\ tempDrawImage # vram
    /\ tempDrawImage' = vram
    /\ UNCHANGED <<vram, dither, semiTransparencyEnabled, semiTransparencyMode,
                   setMask, checkMask, drawTopLeftX, drawTopLeftY,
                   drawBottomRightX, drawBottomRightY, frag, fragCount, fnVars,
                   dmaVars>>

----------------------------------------------------------------------------
(* The colour pipeline applied to inputs drawn from bounded sets *)

NoResult == [done |-> FALSE]

FnIdle ==
    /\ fcase = [fn |-> "none"]
    /\ fres = NoResult

\* ordered pairs v1 <= v2 of 8-bit channel values
QuantizeCases ==
    UNION {{[fn |-> "quantize", v1 |-> a, v2 |-> b] : b \in a..MaxColour8} :
              a \in 0..MaxColour8}

\* 8-bit colours: every grey, and one mixed colour per value
ColourInputs ==
    {[r |-> v, g |-> v, b |-> v] : v \in 0..MaxColour8}
    \cup {[r |-> v, g |-> MaxColour8 - v, b |-> (v * 3) % (MaxColour8 + 1)] :
             v \in 0..MaxColour8}

ColouringCases ==
    {[fn |-> "colouring", colour |-> c, coord |-> [x |-> px, y |-> py],
      dither |-> d] :
        c \in ColourInputs, px \in 0..DitherSpan, py \in 0..DitherSpan,
        d \in 0..1}

\* every pair (existing, new) of 5-bit values on every channel
BlendCases ==
    {[fn |-> "blend", enabled |-> e, mode |-> m,
      old |-> [r |-> ob, g |-> MaxColour5 - ob,
               b |-> (ob + 16) % (MaxColour5 + 1), a |-> ob % 2],
      new |-> [r |-> nf, g |-> MaxColour5 - nf,
               b |-> (nf * 5) % (MaxColour5 + 1)]] :
        e \in 0..1, m \in 0..3, ob \in 0..MaxColour5, nf \in 0..MaxColour5}

FnInit ==
    /\ fcase \in QuantizeCases \cup ColouringCases \cup BlendCases
    /\ fres = NoResult

\* the 15-bit restore of two channel values, and of the first one rescaled
ApplyQuantize ==
    /\ fcase.fn = "quantize"
    /\ ~fres.done
    /\ fres' = [done |-> TRUE, q1 |-> Quantize(fcase.v1),
                q2 |-> Quantize(fcase.v2),
                again |-> Quantize(Quantize(fcase.v1) * 8)]
    /\ UNCHANGED <<fcase, gpuVars, dmaVars>>

\* colouring, dithering and the 15-bit restore of one fragment colour
ApplyColouring ==
    /\ fcase.fn = "colouring"
    /\ ~fres.done
    /\ LET pre == Colouring(fcase.colour, fcase.coord, fcase.dither)
       IN fres' = [done |-> TRUE, pre |-> pre, q |-> Restore15(pre)]
    /\ UNCHANGED <<fcase, gpuVars, dmaVars>>

\* the semi-transparency stage of one fragment
ApplySemiTransparency ==
    /\ fcase.fn = "blend"
    /\ ~fres.done
    /\ fres' = [done |-> TRUE,
                out |-> SemiTransparency(fcase.enabled, fcase.mode,
                                          fcase.old, fcase.new)]
    /\ UNCHANGED <<fcase, gpuVars, dmaVars>>

----------------------------------------------------------------------------
(* The DMA arbiter: channel bank, control-register write, step() *)

\* MDEC-in, MDEC-out, GPU, CD-ROM, SPU, PIO, OTC
Channels == 0..6

\* bus addresses are 24 bits wide
AddressSpace == 16777216

\* the pointer field of a node header that ends a linked list
Terminator == 16777215

\* a linked-list node header: payload size in the top byte, next pointer below
Header(size, next) == size * AddressSpace + next
HeaderSize_plusOne(word) == word \div AddressSpace + 1

HeaderSize(word) == word \div AddressSpace
HeaderNext(word) == word % AddressSpace

\* the data words at 0x1000..0x1020 hold their own address
DataAddrs == {4096 + 4 * i : i \in 0..8}

\* a list of two nodes at 0x2000 and 0x2010 and the node at 0x2020 that
\* ends it; CyclicMemory points the second node back to the first
ListPayloadAddrs == {8196, 8200, 8204, 8212, 8216, 8228}
MemAddrs == DataAddrs \cup ListPayloadAddrs \cup {8192, 8208, 8224}

ListMemory(second) ==
    [a \in MemAddrs |->
        CASE a = 8192 -> Header(2, 8208)
          [] a = 8208 -> Header(1, second)
          [] a = 8224 -> Header(1, Terminator)
          [] OTHER -> a]

TerminatedMemory == ListMemory(8224)
CyclicMemory == ListMemory(8192)

\* the bus port: a word read from memory, zero outside the modelled words
MemRead(m, address) == IF address \in DOMAIN m THEN m[address] ELSE 0

\* the word a peripheral port supplies as the n-th word of a transfer
PortWord(c, n) == 1000 * (c + 1) + n

\* register contents the CPU has written before arming: base address,
\* block size and count, and the control word's direction, step, chop size
\* and sync mode
Programs ==
    {[base |-> IF st = 4 THEN 4096 ELSE 4124,
      blockSize |-> IF ch = 0 THEN 4 ELSE 3,
      blockCount |-> 2, direction |-> d, stepSize |-> st, chop |-> ch,
      syncMode |-> 0] :
        d \in {"toPeripheral", "fromPeripheral"}, st \in {4, -4},
        ch \in {0, 2}}
    \cup {[base |-> 4104, blockSize |-> 2, blockCount |-> 2,
           direction |-> "toPeripheral", stepSize |-> 4, chop |-> 0,
           syncMode |-> 1]}
    \cup {[base |-> b, blockSize |-> 0, blockCount |-> 0,
           direction |-> "toPeripheral", stepSize |-> 4, chop |-> 0,
           syncMode |-> 2] : b \in {8192, 8224}}

IdleChannel(program) ==
    [base |-> program.base, blockSize |-> program.blockSize,
     blockCount |-> program.blockCount, direction |-> program.direction,
     stepSize |-> program.stepSize, chop |-> program.chop,
     syncMode |-> program.syncMode, enable |-> 0, active |-> FALSE,
     cursor |-> program.base, remaining |-> 0, blocksLeft |-> 0, log |-> <<>>]

DMAInit ==
    /\ \E program \in Programs :
          /\ dmaChan = [c \in Channels |-> IdleChannel(program)]
          /\ mem \in IF program.syncMode = 2
                      THEN {TerminatedMemory, CyclicMemory}
                      ELSE {TerminatedMemory}
    /\ \E en \in {{}, {2}, Channels \ {2}} :
          dicr = [irqEnable |-> en, irqFlags |-> {}]
    /\ dpcr \in {[c \in Channels |-> 0], [c \in Channels |-> 6 - c]}
    /\ ctlWrites = 0

DMAIdle ==
    /\ dmaChan = [c \in Channels |->
                    IdleChannel([base |-> 0, blockSize |-> 0, blockCount |-> 0,
                                 direction |-> "toPeripheral", stepSize |-> 4,
                                 chop |-> 0, syncMode |-> 0])]
    /\ dicr = [irqEnable |-> {}, irqFlags |-> {}]
    /\ dpcr = [c \in Channels |-> 0]
    /\ mem = TerminatedMemory
    /\ ctlWrites = 0

\* readWord of the channel's control register: the enable bit reads back
DMAArbiter_readControl(c) ==
    [direction |-> dmaChan[c].direction, stepSize |-> dmaChan[c].stepSize,
     chop |-> dmaChan[c].chop, syncMode |-> dmaChan[c].syncMode,
     enable |-> dmaChan[c].enable]

\* a channel is armed: the cursor starts at the base address
Armed(ch) ==
    [ch EXCEPT !.enable = 1, !.active = TRUE, !.cursor = ch.base,
               !.remaining = IF ch.syncMode = 0
                             THEN ch.blockSize * ch.blockCount
                             ELSE IF ch.syncMode = 1 THEN ch.blockSize ELSE 0,
               !.blocksLeft = IF ch.syncMode = 1 THEN ch.blockCount ELSE 0,
               !.log = <<>>]

\* writeWord to the control register of channel c: the enable bit is
\* stored; the trigger bit arms the channel only if the enable bit is set
\* too, and not while the channel is already active
DMAArbiter_writeControl(c, enable, trigger) ==
    /\ ctlWrites < MaxControlWrites
    /\ ctlWrites' = ctlWrites + 1
    /\ dmaChan' = [dmaChan EXCEPT ![c] =
                      IF trigger = 1 /\ enable = 1 /\ ~dmaChan[c].active
                      THEN Armed(dmaChan[c])
                      ELSE [dmaChan[c] EXCEPT !.enable = enable]]
    /\ UNCHANGED <<dicr, dpcr, mem, gpuVars, fnVars>>

\* the address of the i-th word of a burst (i from 1)
BurstAddress(ch, i) == (ch.cursor + (i - 1) * ch.stepSize) % AddressSpace

\* the <<address, word>> pairs of a burst of n words, in transfer order
BurstLog(c, ch, m, n) ==
    [i \in 1..n |->
        <<BurstAddress(ch, i),
          IF ch.direction = "toPeripheral"
          THEN MemRead(m, BurstAddress(ch, i))
          ELSE PortWord(c, Len(ch.log) + i)>>]

\* memory after the burst: words from the port land at the cursor
BurstMemory(c, ch, m, n) ==
    IF ch.direction = "toPeripheral"
    THEN m
    ELSE [a \in DOMAIN m |->
            IF \E i \in 1..n : BurstAddress(ch, i) = a
            THEN LET last == CHOOSE i \in 1..n :
                                 /\ BurstAddress(ch, i) = a
                                 /\ \A j \in 1..n :
                                       BurstAddress(ch, j) = a => j <= i
                 IN PortWord(c, Len(ch.log) + last)
            ELSE m[a]]

\* the words one step() may transfer: all that remain, or the chop size
BurstSize(ch) ==
    IF ch.chop = 0 \/ ch.remaining <= ch.chop THEN ch.remaining ELSE ch.chop

Completed_enableKept(ch) == [ch EXCEPT !.active = FALSE]

\* the channel once its transfer has completed: enable deasserted
Completed(ch) == [ch EXCEPT !.enable = 0, !.active = FALSE]

\* sync modes 0 and 1, one burst: [ch, mem, done]
ServiceBlock(c, ch, m) ==
    LET n == BurstSize(ch)
        moved == [ch EXCEPT !.cursor = (ch.cursor + n * ch.stepSize) % AddressSpace,
                            !.remaining = ch.remaining - n,
                            !.log = ch.log \o BurstLog(c, ch, m, n)]
        blockDone == moved.remaining = 0
        next == IF ch.syncMode = 1 /\ blockDone /\ ch.blocksLeft > 1
                THEN [moved EXCEPT !.blocksLeft = ch.blocksLeft - 1,
                                   !.remaining = ch.blockSize]
                ELSE IF blockDone
                     THEN Completed([moved EXCEPT !.blocksLeft = 0])
                     ELSE moved
    IN [ch |-> next, mem |-> BurstMemory(c, ch, m, n), done |-> ~next.active]

\* sync mode 2, one node: [ch, mem, done]
ServiceLinkedList(c, ch, m) ==
    LET header == MemRead(m, ch.cursor)
        payload == [ch EXCEPT !.cursor = (ch.cursor + 4) % AddressSpace,
                              !.stepSize = 4, !.log = <<>>]
        n == HeaderSize(header)
    IN IF HeaderNext(header) = Terminator
       THEN [ch |-> Completed(ch), mem |-> m, done |-> TRUE]
       ELSE [ch |-> [ch EXCEPT !.cursor = HeaderNext(header),
                               !.log = BurstLog(c, payload, m, n)],
             mem |-> BurstMemory(c, payload, m, n), done |-> FALSE]

Service(c, ch, m) ==
    IF ch.syncMode = 2 THEN ServiceLinkedList(c, ch, m) ELSE ServiceBlock(c, ch, m)

\* channels that may run, and the one step() services: ascending priority
\* field, ties broken by ascending channel index
Ready == {c \in Channels : dmaChan[c].active /\ dmaChan[c].enable = 1}

Before(c, d) == dpcr[c] < dpcr[d] \/ (dpcr[c] = dpcr[d] /\ c <= d)

Scheduled == CHOOSE c \in Ready : \A d \in Ready : Before(c, d)

\* step(): an active channel whose enable bit was cleared halts without
\* IRQ; the scheduled channel transfers one burst and, on completion,
\* raises its IRQ flag if its IRQ-enable bit is set
DMAArbiter_step ==
    /\ \E c \in Channels : dmaChan[c].active
    /\ IF Ready = {}
       THEN /\ dmaChan' = [c \in Channels |->
                             [dmaChan[c] EXCEPT !.active = FALSE]]
            /\ UNCHANGED <<mem, dicr>>
       ELSE LET s == Scheduled
                r == Service(s, dmaChan[s], mem)
            IN /\ dmaChan' = [c \in Channels |->
                                IF c = s THEN r.ch
                                ELSE IF dmaChan[c].active /\ dmaChan[c].enable = 0
                                     THEN [dmaChan[c] EXCEPT !.active = FALSE]
                                     ELSE dmaChan[c]]
               /\ mem' = r.mem
               /\ dicr' = IF r.done /\ s \in dicr.irqEnable
                          THEN [dicr EXCEPT !.irqFlags = @ \cup {s}]
                          ELSE dicr
    /\ UNCHANGED <<dpcr, ctlWrites, gpuVars, fnVars>>

----------------------------------------------------------------------------
(* Specifications *)

GPUNext ==
    \/ \E c \in Coords, col \in Colours : ShadedPolygon_main(c, col)
    \/ \E c \in Coords, off \in Offsets : GP0_80_main(c, off.x, off.y)
    \/ GP0_80_fillTempDraw

\* the fragment stores on VRAM
InitGPU == GPUInit /\ FnIdle /\ DMAIdle

SpecGPU == InitGPU /\ [][GPUNext]_vars

FnNext ==
    \/ ApplyQuantize
    \/ ApplyColouring
    \/ ApplySemiTransparency

\* the colour pipeline on drawn inputs
InitColour == GPUIdle /\ FnInit /\ DMAIdle

SpecColour == InitColour /\ [][FnNext]_vars

DMANext ==
    \/ \E c \in Channels, enable \in 0..1, trigger \in 0..1 :
          DMAArbiter_writeControl(c, enable, trigger)
    \/ DMAArbiter_step

\* the DMA arbiter driven by control-register writes and step()
InitDMA == GPUIdle /\ FnIdle /\ DMAInit

SpecDMA == InitDMA /\ [][DMANext]_vars

----------------------------------------------------------------------------
(* Properties of the fragment stores, under SpecGPU *)

\* the last fragment's coordinate against the four drawing-area uniforms
FragInArea ==
    /\ drawTopLeftX <= frag.coord.x
    /\ frag.coord.x <= drawBottomRightX
    /\ drawBottomRightY <= frag.coord.y
    /\ frag.coord.y <= drawTopLeftY

\* the mask test lets the last fragment through
FragMaskPermits == checkMask = 0 \/ frag.old.a # 1

\* a shader has just processed a fragment
FragStep == fragCount' = fragCount + 1

WellFormedPixel(p) ==
    /\ p.r \in 0..31
    /\ p.g \in 0..31
    /\ p.b \in 0..31
    /\ p.a \in 0..1

\* C1: with checkMask = 1 no step of either shader changes a VRAM pixel
\* whose mask bit is 1; with checkMask = 0 a fragment inside the drawing
\* area always replaces the destination pixel by the new pixel, whatever
\* the destination's mask bit.
C1_MaskDiscipline ==
    [][ /\ checkMask = 1 =>
             \A c \in Coords : vram[c].a = 1 => vram'[c] = vram[c]
        /\ (FragStep /\ checkMask = 0 /\ FragInArea') =>
             vram'[frag'.coord] = frag'.tex ]_vars

\* C1 witness: a shaded-polygon fragment inside the drawing area met a
\* masked pixel under checkMask = 1 and would have changed it.
C1_Witness ==
    /\ frag.shader = "ShadedPolygon"
    /\ checkMask = 1
    /\ frag.old.a = 1
    /\ FragInArea
    /\ frag.tex # frag.old
    /\ vram[frag.coord] = frag.old

\* C2: a shaded-polygon fragment changes VRAM only if its coordinate is
\* inside the drawing area, all four bounds inclusive, and a fragment
\* outside leaves all of VRAM unchanged; inside the area, and the mask test
\* permitting, the new pixel is stored.  With the area (10, 20, 100, 50)
\* the fragment at (5,75) is dropped and the one at (15,75) is written.
C2_ClipDiscipline ==
    [][ (FragStep /\ frag'.shader = "ShadedPolygon") =>
          /\ ~FragInArea' => vram' = vram
          /\ (FragInArea' /\ FragMaskPermits') =>
                vram'[frag'.coord] = frag'.tex
          /\ ( /\ drawTopLeftX = 10 /\ drawBottomRightX = 20
               /\ drawTopLeftY = 100 /\ drawBottomRightY = 50 ) =>
                /\ frag'.coord = [x |-> 5, y |-> 75] => vram' = vram
                /\ (frag'.coord = [x |-> 15, y |-> 75] /\ FragMaskPermits') =>
                      vram'[frag'.coord] = frag'.tex ]_vars

\* C2 witness: in the area (10, 20, 100, 50) the fragment at (15,75) has
\* been written and has changed the pixel.
C2_Witness ==
    /\ frag.shader = "ShadedPolygon"
    /\ drawTopLeftX = 10 /\ drawBottomRightX = 20
    /\ drawTopLeftY = 100 /\ drawBottomRightY = 50
    /\ frag.coord = [x |-> 15, y |-> 75]
    /\ vram[frag.coord] = frag.tex
    /\ frag.tex # frag.old

\* C6 as claimed: a GP0_80 copy fragment changes its destination pixel only
\* if the destination lies inside the drawing area.
C6_Original ==
    (frag.shader = "GP0_80" /\ vram[frag.coord] # frag.old) => FragInArea

\* C6 amended: a GP0_80 copy fragment stores the transferred pixel exactly
\* when mask-check is disabled or the destination's mask bit is unset; the
\* drawing area plays no part, and the pixel is left alone otherwise.
C6_CopyDiscipline ==
    frag.shader = "GP0_80" =>
        /\ FragMaskPermits => vram[frag.coord] = frag.tex
        /\ ~FragMaskPermits => vram[frag.coord] = frag.old

\* C6 witness: a copy fragment outside the drawing area has been stored
\* and has changed the pixel.
C6_Witness ==
    /\ frag.shader = "GP0_80"
    /\ ~FragInArea
    /\ vram[frag.coord] = frag.tex
    /\ frag.tex # frag.old

\* C10: every VRAM pixel keeps its three channels in 0..31 and its mask
\* bit in 0..1, and a pixel a fragment has stored carries mask bit 1
\* whenever setMask = 1.
C10_VramWellFormed ==
    /\ \A c \in Coords : WellFormedPixel(vram[c])
    /\ ( /\ frag.shader # "none"
         /\ setMask = 1
         /\ (frag.shader = "ShadedPolygon" => FragInArea)
         /\ FragMaskPermits ) => vram[frag.coord].a = 1

\* C10 witness: a semi-transparent shaded fragment with setMask = 1 has
\* replaced an unmasked pixel, after an earlier fragment.
C10_Witness ==
    /\ frag.shader = "ShadedPolygon"
    /\ fragCount = 2
    /\ setMask = 1
    /\ semiTransparencyEnabled = 1
    /\ frag.old.a = 0
    /\ vram[frag.coord] = frag.tex
    /\ frag.tex.r # frag.old.r

----------------------------------------------------------------------------
(* Properties of the colour pipeline, under SpecColour *)

\* C3: in each of the four semi-transparency modes, for every pair of
\* existing and new 5-bit channel values, the red, green and blue the
\* fragment goes on to store are in 0..31.
C3_BlendInRange ==
    (fcase.fn = "blend" /\ fres.done) =>
        \A c \in RGB : fres.out[c] >= 0 /\ fres.out[c] <= 31

\* C3 witness: mode 2 with back - front negative on red, stored as 0.
C3_Witness ==
    /\ fcase.fn = "blend"
    /\ fres.done
    /\ fcase.enabled = 1
    /\ fcase.mode = 2
    /\ fcase.old.r < fcase.new.r
    /\ fres.out.r = 0

\* C4: q(v) = min(v >> 3, 31) is monotonic on 0..255, and quantizing the
\* rescaled result q(v) << 3 gives q(v) again.
C4_QuantizeMonotonicIdempotent ==
    (fcase.fn = "quantize" /\ fres.done) =>
        /\ fcase.v1 <= fcase.v2 => fres.q1 <= fres.q2
        /\ fres.again = fres.q1
        /\ fres.q1 \in 0..31

\* C4 witness: two different 8-bit values in different 5-bit steps.
C4_Witness ==
    /\ fcase.fn = "quantize"
    /\ fres.done
    /\ fcase.v1 = 133
    /\ fcase.v2 = 255
    /\ fres.q1 = 16
    /\ fres.q2 = 31

\* the offset the claim names: the matrix at (x mod 4, (511 - y) mod 4)
C5_Offset ==
    ditherArray[(fcase.coord.x % 4) + 1][((511 - fcase.coord.y) % 4) + 1]

C5_Clamp255(v) == IF v < 0 THEN 0 ELSE IF v > 255 THEN 255 ELSE v

\* C5: with dither = 1 every channel gets the same matrix offset, indexed
\* by (x mod 4, (511 - y) mod 4), and is clamped to 0..255 before the
\* quantization; with dither = 0 the colour is unchanged.  At (0,0) the
\* colour (130,130,130) becomes 133 and then 16 on every channel.
C5_Dither ==
    (fcase.fn = "colouring" /\ fres.done) =>
        /\ fcase.dither = 1 =>
              \A c \in RGB : fres.pre[c] = C5_Clamp255(fcase.colour[c] + C5_Offset)
        /\ fcase.dither = 0 => fres.pre = fcase.colour
        /\ \A c \in RGB : fres.q[c] = fres.pre[c] \div 8
        /\ ( /\ fcase.dither = 1
             /\ fcase.coord = [x |-> 0, y |-> 0]
             /\ fcase.colour = [r |-> 130, g |-> 130, b |-> 130] ) =>
                /\ C5_Offset = 3
                /\ fres.pre = [r |-> 133, g |-> 133, b |-> 133]
                /\ fres.q = [r |-> 16, g |-> 16, b |-> 16]

\* C5 witness: the fragment at (0,0) with colour (130,130,130), dithered.
C5_Witness ==
    /\ fcase.fn = "colouring"
    /\ fres.done
    /\ fcase.dither = 1
    /\ fcase.coord = [x |-> 0, y |-> 0]
    /\ fcase.colour = [r |-> 130, g |-> 130, b |-> 130]
    /\ fres.q.r = 16

C9_Clamp31(v) == IF v < 0 THEN 0 ELSE IF v > 31 THEN 31 ELSE v

\* the four formulas as claimed, mode 0 the average (B + F) / 2
C9_ClaimedFormula(mode, B, F) ==
    CASE mode = 0 -> (B + F) \div 2
      [] mode = 1 -> B + F
      [] mode = 2 -> B - F
      [] mode = 3 -> B + F \div 4

\* the four formulas as amended, mode 0 the sum of the two halves
C9_AmendedFormula(mode, B, F) ==
    CASE mode = 0 -> B \div 2 + F \div 2
      [] mode = 1 -> B + F
      [] mode = 2 -> B - F
      [] mode = 3 -> B + F \div 4

\* C9 as claimed: each channel written is clamp((B + F) / 2) in mode 0,
\* clamp(B + F), clamp(B - F), clamp(B + F/4) in modes 1, 2, 3.
C9_Original ==
    (fcase.fn = "blend" /\ fres.done /\ fcase.enabled = 1) =>
        \A c \in RGB :
            fres.out[c] =
                C9_Clamp31(C9_ClaimedFormula(fcase.mode, fcase.old[c], fcase.new[c]))

\* C9 amended: each channel written is, independently per channel, mode 0
\* B/2 + F/2 (each half an integer division), mode 1 B + F, mode 2 B - F,
\* mode 3 B + F/4, clamped to 0..31; with semi-transparency disabled it is
\* F itself.
C9_BlendFormulas ==
    (fcase.fn = "blend" /\ fres.done) =>
        \A c \in RGB :
            fres.out[c] =
                IF fcase.enabled = 1
                THEN C9_Clamp31(C9_AmendedFormula(fcase.mode, fcase.old[c],
                                                  fcase.new[c]))
                ELSE fcase.new[c]

\* C9 witness: mode 0 with both values odd, where the two readings differ.
C9_Witness ==
    /\ fcase.fn = "blend"
    /\ fres.done
    /\ fcase.enabled = 1
    /\ fcase.mode = 0
    /\ fcase.old.r = 1
    /\ fcase.new.r = 1
    /\ fres.out.r = 0

----------------------------------------------------------------------------
(* Properties of the DMA arbiter, under SpecDMA *)

\* this step is step() servicing channel c
StepServices(c) ==
    /\ ctlWrites' = ctlWrites
    /\ dmaChan[c].active
    /\ dmaChan[c].enable = 1
    /\ \A d \in Channels :
          (dmaChan[d].active /\ dmaChan[d].enable = 1) =>
              (dpcr[c] < dpcr[d] \/ (dpcr[c] = dpcr[d] /\ c <= d))

\* the <<address, word>> pairs of n words read from memory m in address
\* order from address first, stride bytes apart
C7_WordsFrom(m, first, stride, n) ==
    [i \in 1..n |->
        <<(first + (i - 1) * stride) % 16777216,
          IF (first + (i - 1) * stride) % 16777216 \in DOMAIN m
          THEN m[(first + (i - 1) * stride) % 16777216] ELSE 0>>]

\* C7: when step() completes a sync-mode-0 transfer of an enabled channel,
\* exactly block-size x block-count words have been transferred in strict
\* address order from the base address, the cursor has advanced by
\* block-size x block-count x step-size, the control register reads back
\* disabled, and the IRQ flag is set iff the channel's IRQ-enable bit is
\* set.  Channel 2 with base 0x1000, block size 4, block count 2, to
\* peripheral, delivers the words at 0x1000..0x101C in order in one step()
\* and leaves the cursor at 0x1020.
C7_ImmediateTransfer ==
    [][ \A c \in Channels :
          LET ch == dmaChan[c]
              total == ch.blockSize * ch.blockCount
          IN /\ ( /\ StepServices(c)
                  /\ ch.syncMode = 0
                  /\ ~dmaChan'[c].active ) =>
                    /\ Len(dmaChan'[c].log) = total
                    /\ \A i \in 1..total :
                          dmaChan'[c].log[i][1] =
                              (ch.base + (i - 1) * ch.stepSize) % 16777216
                    /\ ch.direction = "toPeripheral" =>
                          dmaChan'[c].log =
                              C7_WordsFrom(mem, ch.base, ch.stepSize, total)
                    /\ dmaChan'[c].cursor =
                          (ch.base + total * ch.stepSize) % 16777216
                    /\ DMAArbiter_readControl(c)'.enable = 0
                    /\ (c \in dicr'.irqFlags) <=> (c \in dicr.irqEnable)
             /\ ( /\ StepServices(c)
                  /\ c = 2
                  /\ ch.syncMode = 0 /\ ch.chop = 0
                  /\ ch.base = 4096 /\ ch.blockSize = 4 /\ ch.blockCount = 2
                  /\ ch.direction = "toPeripheral" /\ ch.stepSize = 4
                  /\ ch.cursor = ch.base ) =>
                    /\ dmaChan'[c].log =
                          << <<4096, mem[4096]>>, <<4100, mem[4100]>>,
                             <<4104, mem[4104]>>, <<4108, mem[4108]>>,
                             <<4112, mem[4112]>>, <<4116, mem[4116]>>,
                             <<4120, mem[4120]>>, <<4124, mem[4124]>> >>
                    /\ dmaChan'[c].cursor = 4128
                    /\ DMAArbiter_readControl(c)'.enable = 0
                    /\ ~dmaChan'[c].active ]_vars

\* C7 witness: channel 2 has completed the transfer of 8 words from 0x1000
\* with its IRQ enabled.
C7_Witness ==
    /\ dmaChan[2].syncMode = 0
    /\ dmaChan[2].base = 4096
    /\ dmaChan[2].direction = "toPeripheral"
    /\ ~dmaChan[2].active
    /\ Len(dmaChan[2].log) = 8
    /\ dmaChan[2].cursor = 4128
    /\ dmaChan[2].enable = 0
    /\ 2 \in dicr.irqFlags

\* C8: when step() services a linked-list channel, the transfer stops if
\* and only if the pointer field of the header at the cursor is the
\* terminator, and then the IRQ is raised and no word is transferred;
\* otherwise exactly the header's payload count of words, starting right
\* after the header, is transferred and the cursor becomes the header's
\* next pointer.  In the cyclic list no header is the terminator, so the
\* channel stays active.
C8_LinkedList ==
    [][ \A c \in Channels :
          (StepServices(c) /\ dmaChan[c].syncMode = 2) =>
             LET cursor == dmaChan[c].cursor
                 header == IF cursor \in DOMAIN mem THEN mem[cursor] ELSE 0
                 size == header \div 16777216
                 pointer == header % 16777216
             IN /\ mem' = mem
                /\ IF pointer = 16777215
                   THEN /\ ~dmaChan'[c].active
                        /\ dmaChan'[c].enable = 0
                        /\ dmaChan'[c].log = dmaChan[c].log
                        /\ (c \in dicr'.irqFlags) <=> (c \in dicr.irqEnable)
                   ELSE /\ dmaChan'[c].active
                        /\ dmaChan'[c].cursor = pointer
                        /\ dmaChan'[c].log =
                              C7_WordsFrom(mem, cursor + 4, 4, size)
                        /\ dicr' = dicr
                /\ (mem = CyclicMemory /\ dmaChan[c].base = 8192) =>
                      (pointer # 16777215 /\ dmaChan'[c].active) ]_vars

\* C8 witness: channel 2 has walked the terminated list from 0x2000, has
\* transferred the one payload word of the second node last, and has
\* stopped at the terminator node with its IRQ raised.
C8_Witness ==
    /\ dmaChan[2].syncMode = 2
    /\ dmaChan[2].base = 8192
    /\ ~dmaChan[2].active
    /\ dmaChan[2].cursor = 8224
    /\ dmaChan[2].log = << <<8212, 8212>> >>
    /\ 2 \in dicr.irqFlags

====
